---- MODULE Spec2Model ----
(***************************************************************************)
(* CineMatch (src/app.py): a Streamlit script that loads a movie catalog   *)
(* and a chunked similarity matrix, ranks the movies most similar to a     *)
(* selected title and optionally fetches poster art over HTTP.             *)
(*                                                                         *)
(* Conventions.  Positions and indexes are 0-based as in the source; a     *)
(* TLA+ sequence element k (1-based) is the Python element k-1.  Scores    *)
(* are floats in the source and are modelled by integer score levels, on   *)
(* which float(score) is the identity.  The catalog DataFrame carries the  *)
(* default RangeIndex 0..N-1, so the label .index[0] yields is the row     *)
(* position .iloc uses.  None is modelled by a reserved string and NaN by   *)
(* a reserved integer.                                                     *)
(***************************************************************************)
EXTENDS Integers, Sequences, FiniteSets, TLC

VARIABLES
    pc,            \* position of the script: start, loaded, ready, stopped, crashed
    DEFAULT_API_KEY, \* st.secrets["tmdb_api_key"] or ""
    movies,        \* the catalog DataFrame: [columns, rows]
    similarity,    \* the stacked similarity matrix: [shape, rows]
    title_list,    \* movies['title'].values
    call,          \* arguments of the last recommend_movie call, or NoCall
    idx,           \* local idx of the last recommend_movie call, or NotFound
    S,             \* local S of the last recommend_movie call: <<i, score>> pairs
    recs,          \* what the last recommend_movie call returned
    outcome,       \* what the page shows: idle, warning, cards, exception
    poster_cache,  \* st.cache_data store of fetch_poster: <<id, key>> -> url
    net_requests,  \* number of requests.get calls performed so far
    last_fetch     \* the last fetch_poster call: arguments, response, result

vars == <<pc, DEFAULT_API_KEY, movies, similarity, title_list, call, idx, S,
          recs, outcome, poster_cache, net_requests, last_fetch>>

(***************************************************************************)
(* Bounds and input sets                                                   *)
(***************************************************************************)
MaxN == 3          \* largest catalog of a direct recommend_movie call
MaxFileRows == 2   \* largest catalog file read at startup
MaxTopN == 3       \* largest top_n of a direct recommend_movie call
MaxChunkRows == 1  \* most rows in one similarity chunk file
MaxRequests == 3   \* cap on the request counter

NaN == -99           \* a missing id (float NaN); no catalog id equals it
None == "<None>"
NotFound == -1
NoCall == [movie_name |-> None, top_n |-> 0]
NoResp == [kind |-> "none"]
NoFetch == [called |-> FALSE, tmdb_id |-> -1, api_key |-> "", hit |-> FALSE,
            requests |-> 0, resp |-> NoResp, ret |-> "", raised |-> FALSE]

CatalogTitles == {"A", "a"}          \* titles that occur in catalogs
QueryTitles == {"A", "a", "B"}       \* titles asked for; "B" is in no catalog
Scores == {0, 1}                     \* score levels

Min(a, b) == IF a <= b THEN a ELSE b

Lower(t) == IF t = "A" THEN "a" ELSE IF t = "B" THEN "b" ELSE t

(***************************************************************************)
(* The catalog                                                             *)
(***************************************************************************)
N == Len(movies.rows)

\* The id column of the catalogs drawn: the movie at position 1 has no id.
IdColumn(k) == IF k = 2 THEN NaN ELSE 10 + k

Catalogs(n, cols) ==
    { [columns |-> cols,
       rows |-> [k \in 1..n |->
                   [title |-> IF "title" \in cols THEN t[k] ELSE None,
                    id |-> IF "id" \in cols THEN IdColumn(k) ELSE NaN]]] :
      t \in IF "title" \in cols THEN [1..n -> CatalogTitles]
                                ELSE {[k \in 1..n |-> None]} }

\* Symmetric n x n matrices: every vector over Scores occurs as every row.
SymMatrices(n) ==
    LET Pairs == {p \in (1..n) \X (1..n) : p[1] <= p[2]}
    IN { [shape |-> <<n, n>>,
           rows |-> [i \in 1..n |-> [j \in 1..n |->
                       IF i <= j THEN u[<<i, j>>] ELSE u[<<j, i>>]]]] :
         u \in [Pairs -> Scores] }

(***************************************************************************)
(* recommend_movie                                                         *)
(***************************************************************************)
MatchIndexFolded(movie_name, k) ==
    SelectSeq([j \in 1..N |-> j - 1],
              LAMBDA i : Lower(movies.rows[i + 1].title) = Lower(movie_name))

\* movies[movies['title'] == movie_name].index : labels of the matching rows
RECURSIVE MatchIndex(_, _)
MatchIndex(movie_name, k) ==
    IF k > N THEN <<>>
    ELSE (IF movies.rows[k].title = movie_name THEN <<k - 1>> ELSE <<>>)
         \o MatchIndex(movie_name, k + 1)

\* list(enumerate(distances))
Enumerate(distances) == [k \in 1..Len(distances) |-> <<k - 1, distances[k]>>]

\* Insertion point of x in a list sorted by score descending: after every
\* element whose score is at least x's, which keeps equal scores in order.
InsertDescBeforeTies(sorted, x) ==
    LET p == Cardinality({j \in 1..Len(sorted) : sorted[j][2] > x[2]})
    IN SubSeq(sorted, 1, p) \o <<x>> \o SubSeq(sorted, p + 1, Len(sorted))

InsertDesc(sorted, x) ==
    LET p == Cardinality({j \in 1..Len(sorted) : sorted[j][2] >= x[2]})
    IN SubSeq(sorted, 1, p) \o <<x>> \o SubSeq(sorted, p + 1, Len(sorted))

\* sorted(S, key=lambda x: x[1], reverse=True) : stable, descending
RECURSIVE SortFrom(_, _, _)
SortFrom(seq, k, acc) ==
    IF k > Len(seq) THEN acc ELSE SortFrom(seq, k + 1, InsertDesc(acc, seq[k]))

SortedDesc(seq) == SortFrom(seq, 1, <<>>)

\* seq[lo:hi] for 0 <= lo, 0 <= hi
PySliceKeepFirst(seq, lo, hi) ==
    IF Min(hi, Len(seq)) - 1 < 1 THEN <<>>
    ELSE SubSeq(seq, 1, Min(hi, Len(seq)) - 1)

PySliceShort(seq, lo, hi) ==
    IF Min(hi, Len(seq)) - 1 < lo + 1 THEN <<>>
    ELSE SubSeq(seq, lo + 1, Min(hi, Len(seq)) - 1)

PySlice(seq, lo, hi) ==
    IF Min(hi, Len(seq)) < lo + 1 THEN <<>>
    ELSE SubSeq(seq, lo + 1, Min(hi, Len(seq)))

\* (mrow['title'], float(score), int(mid) if not pd.isna(mid) else -1)
ResultTuple(p) ==
    LET mrow == movies.rows[p[1] + 1]
        mid == IF "id" \in movies.columns THEN mrow.id ELSE -1
    IN <<mrow.title, p[2], IF mid = NaN THEN -1 ELSE mid>>

Returned(i, s, list) == [raised |-> FALSE, idx |-> i, S |-> s, results |-> list]
Raised(i, s) == [raised |-> TRUE, idx |-> i, S |-> s, results |-> <<>>]

recommend_movie_uncaught(movie_name, top_n) ==
    LET index == SelectSeq([j \in 1..N |-> j - 1],
                           LAMBDA i : movies.rows[i + 1].title = movie_name)
    IN IF index = <<>>
       THEN Raised(NotFound, <<>>)
       ELSE LET s == PySlice(SortedDesc(Enumerate(similarity.rows[index[1] + 1])),
                             1, top_n + 1)
            IN Returned(index[1], s, [k \in 1..Len(s) |-> ResultTuple(s[k])])

recommend_movie(movie_name, top_n) ==
    LET index == IF "title" \in movies.columns
                 THEN MatchIndex(movie_name, 1) ELSE <<>>
    IN IF index = <<>>
       THEN Returned(NotFound, <<>>, <<>>)           \* except Exception: return []
       ELSE LET i == index[1]
            IN IF i >= similarity.shape[1]
               THEN Raised(i, <<>>)                  \* similarity[idx]: IndexError
               ELSE LET distances == similarity.rows[i + 1]
                        s == PySlice(SortedDesc(Enumerate(distances)), 1, top_n + 1)
                    IN IF \E k \in 1..Len(s) : s[k][1] >= N
                       THEN Raised(i, s)             \* movies.iloc[i]: IndexError
                       ELSE Returned(i, s, [k \in 1..Len(s) |-> ResultTuple(s[k])])

(***************************************************************************)
(* fetch_poster                                                            *)
(***************************************************************************)
ImageBase == "https://image.tmdb.org/t/p/w500"

Statuses == {200, 204, 404}
Bodies == { [json |-> "unparsable"],          \* resp.json() raises
            [json |-> "array"],               \* data.get raises AttributeError
            [json |-> "object"],              \* no poster_path key
            [json |-> "object", poster_path |-> "null"],
            [json |-> "object", poster_path |-> "string", value |-> ""],
            [json |-> "object", poster_path |-> "number"],   \* str + int raises
            [json |-> "object", poster_path |-> "string", value |-> "/p.jpg"] }

\* What requests.get(url, timeout=5) can do: raise, or return a response.
Responses ==
    {[kind |-> "error"]} \cup
    {[kind |-> "http", status_code |-> st, body |-> b] : st \in Statuses, b \in Bodies}

UiResponses ==
    { [kind |-> "error"],
      [kind |-> "http", status_code |-> 200,
       body |-> [json |-> "object", poster_path |-> "string", value |-> "/p.jpg"]] }

PosterIds == {-1, 0, 11}
ApiKeys == {"", "k"}

HasPath(resp) ==
    /\ resp.kind = "http"
    /\ resp.status_code = 200
    /\ resp.body.json = "object"
    /\ "poster_path" \in DOMAIN resp.body
    /\ resp.body.poster_path = "string"
    /\ resp.body.value # ""

\* The body of fetch_poster, run on a cache miss: [ret, requests, raised].
FetchBodyNoGuard(tmdb_id, api_key, resp) ==
    [ret |-> IF HasPath(resp) THEN ImageBase \o resp.body.value ELSE "",
     requests |-> 1, raised |-> FALSE]

FetchBodyAnyStatus(tmdb_id, api_key, resp) ==
    IF tmdb_id < 0 \/ api_key = ""
    THEN [ret |-> "", requests |-> 0, raised |-> FALSE]
    ELSE IF resp.kind = "error"
    THEN [ret |-> "", requests |-> 1, raised |-> TRUE]
    ELSE IF resp.body.json = "object" /\ "poster_path" \in DOMAIN resp.body
            /\ resp.body.poster_path = "string"
    THEN [ret |-> ImageBase \o resp.body.value, requests |-> 1, raised |-> FALSE]
    ELSE [ret |-> "", requests |-> 1, raised |-> FALSE]

FetchBody(tmdb_id, api_key, resp) ==
    IF tmdb_id < 0 \/ api_key = ""
    THEN [ret |-> "", requests |-> 0, raised |-> FALSE]
    ELSE IF resp.kind = "error"
    THEN [ret |-> "", requests |-> 1, raised |-> FALSE]   \* except Exception
    ELSE IF resp.status_code # 200
    THEN [ret |-> "", requests |-> 1, raised |-> FALSE]
    ELSE IF resp.body.json # "object"
    THEN [ret |-> "", requests |-> 1, raised |-> FALSE]   \* except Exception
    ELSE IF "poster_path" \notin DOMAIN resp.body \/ resp.body.poster_path = "null"
    THEN [ret |-> "", requests |-> 1, raised |-> FALSE]
    ELSE IF resp.body.poster_path = "number"
    THEN [ret |-> "", requests |-> 1, raised |-> FALSE]   \* except Exception
    ELSE IF resp.body.value = ""
    THEN [ret |-> "", requests |-> 1, raised |-> FALSE]
    ELSE [ret |-> ImageBase \o resp.body.value, requests |-> 1, raised |-> FALSE]

\* @st.cache_data fetch_poster: the call as the caller sees it, given the
\* cache and the response the network would give.  [fetch, cache].
fetch_poster(tmdb_id, api_key, resp, cache) ==
    LET key == <<tmdb_id, api_key>>
    IN IF key \in DOMAIN cache
       THEN [fetch |-> [called |-> TRUE, tmdb_id |-> tmdb_id, api_key |-> api_key,
                        hit |-> TRUE, requests |-> 0, resp |-> NoResp,
                        ret |-> cache[key], raised |-> FALSE],
             cache |-> cache]
       ELSE LET b == FetchBody(tmdb_id, api_key, resp)
            IN [fetch |-> [called |-> TRUE, tmdb_id |-> tmdb_id, api_key |-> api_key,
                           hit |-> FALSE, requests |-> b.requests,
                           resp |-> IF b.requests = 0 THEN NoResp ELSE resp,
                           ret |-> b.ret, raised |-> b.raised],
                  cache |-> IF b.raised THEN cache ELSE (key :> b.ret) @@ cache]

(***************************************************************************)
(* Startup: lines 13-16 and 71-92                                          *)
(***************************************************************************)
DefaultKeys == {"", "0123456789ab"}   \* no secret, or one longer than 10
TypedKeys == {"", "k"}                \* what the user types as TMDB API Key
SliderMin == 3
SliderMax == 12
MinDefaultKeyLen == 10

\* One similarity_part_i.pkl: an r x c array.  What startup and the page do
\* with the files depends on their shapes; the cells alternate 1, 0, 1, ...
Chunk(r, c) ==
    [shape |-> <<r, c>>,
     rows |-> [i \in 1..r |-> [j \in 1..c |-> j % 2]]]

ChunkFiles ==
    { Chunk(r, c) : r \in 0..MaxChunkRows, c \in 0..MaxFileRows }

CatalogFiles ==
    UNION { Catalogs(n, cols) : n \in 0..MaxFileRows, cols \in SUBSET {"title", "id"} }

\* np.concatenate((part0, part1, part2), axis=0), defined when the column
\* counts agree.
Concatenate(part0, part1, part2) ==
    [shape |-> <<part0.shape[1] + part1.shape[1] + part2.shape[1], part0.shape[2]>>,
     rows |-> part0.rows \o part1.rows \o part2.rows]

Concatenable(part0, part1, part2) ==
    part0.shape[2] = part1.shape[2] /\ part1.shape[2] = part2.shape[2]

\* movies, similarity = load_data()
load_data ==
    /\ pc = "start"
    /\ \E file \in CatalogFiles, part0 \in ChunkFiles, part1 \in ChunkFiles,
          part2 \in ChunkFiles :
          IF Concatenable(part0, part1, part2)
          THEN /\ movies' = file
               /\ similarity' = Concatenate(part0, part1, part2)
               /\ pc' = "loaded"
          ELSE /\ pc' = "crashed"                      \* ValueError
               /\ UNCHANGED <<movies, similarity>>
    /\ UNCHANGED <<DEFAULT_API_KEY, title_list, call, idx, S, recs, outcome,
                   poster_cache, net_requests, last_fetch>>

\* if 'title' not in movies.columns: st.error(...); st.stop()
\* title_list = movies['title'].values
CheckTitleNoStop ==
    /\ pc = "loaded"
    /\ pc' = "ready"
    /\ title_list' = [k \in 1..N |-> movies.rows[k].title]
    /\ UNCHANGED <<DEFAULT_API_KEY, movies, similarity, call, idx, S, recs,
                   outcome, poster_cache, net_requests, last_fetch>>

CheckTitle ==
    /\ pc = "loaded"
    /\ IF "title" \notin movies.columns
       THEN /\ pc' = "stopped"
            /\ UNCHANGED title_list
       ELSE /\ pc' = "ready"
            /\ title_list' = [k \in 1..N |-> movies.rows[k].title]
    /\ UNCHANGED <<DEFAULT_API_KEY, movies, similarity, call, idx, S, recs,
                   outcome, poster_cache, net_requests, last_fetch>>

(***************************************************************************)
(* The page: lines 98-110 and 148-181                                      *)
(***************************************************************************)
\* The sidebar: [use_posters, tmdb_api_key] from the checkbox and text input.
Sidebar(checkbox, typed) ==
    IF Len(DEFAULT_API_KEY) > MinDefaultKeyLen
    THEN [use_posters |-> TRUE, tmdb_api_key |-> DEFAULT_API_KEY]
    ELSE [use_posters |-> checkbox,
          tmdb_api_key |-> IF checkbox THEN typed ELSE ""]

\* st.selectbox(..., title_list): an option, or None when there is none
Selectable ==
    IF title_list = <<>> THEN {None} ELSE {title_list[k] : k \in 1..Len(title_list)}

\* The cards' poster lookups, in card order: [cache, requests, last].
RECURSIVE FetchAll(_, _, _, _, _)
FetchAll(results, api_key, resps, k, st) ==
    IF k > Len(results) THEN st
    ELSE LET f == fetch_poster(results[k][3], api_key, resps[k], st.cache)
         IN FetchAll(results, api_key, resps, k + 1,
                     [cache |-> f.cache,
                      requests |-> st.requests + f.fetch.requests,
                      last |-> f.fetch])

\* if st.button("Recommend Movies"): recs = recommend_movie(...) has given r;
\* the page then shows the warning or the cards, with their posters.
Recommend(r, selected_movie, n_recs, use_posters, tmdb_api_key, resps) ==
    /\ call' = [movie_name |-> selected_movie, top_n |-> n_recs]
    /\ idx' = r.idx
    /\ S' = r.S
    /\ recs' = r.results
    /\ outcome' = IF r.raised THEN "exception"
                  ELSE IF r.results = <<>> THEN "warning" ELSE "cards"
    /\ \E st \in { IF ~r.raised /\ r.results # <<>> /\ use_posters /\ tmdb_api_key # ""
                   THEN FetchAll(r.results, tmdb_api_key, resps, 1,
                                 [cache |-> poster_cache, requests |-> net_requests,
                                  last |-> last_fetch])
                   ELSE [cache |-> poster_cache, requests |-> net_requests,
                         last |-> last_fetch] } :
          /\ poster_cache' = st.cache
          /\ net_requests' = st.requests
          /\ last_fetch' = st.last
    /\ UNCHANGED <<pc, DEFAULT_API_KEY, movies, similarity, title_list>>

\* A rerun of the script with the button pressed.
ClickRecommend ==
    /\ pc = "ready"
    /\ net_requests < MaxRequests
    /\ \E selected_movie \in Selectable, n_recs \in {SliderMin, SliderMax},
          checkbox \in BOOLEAN, typed \in TypedKeys :
          \E r \in {recommend_movie(selected_movie, n_recs)},
             side \in {Sidebar(checkbox, typed)} :
             \E resps \in [1..Len(r.results) -> UiResponses] :
                Recommend(r, selected_movie, n_recs, side.use_posters,
                          side.tmdb_api_key, resps)

\* A rerun of the script without the button: the page shows no result.
Rerun ==
    /\ pc = "ready"
    /\ outcome # "idle"
    /\ outcome' = "idle"
    /\ UNCHANGED <<pc, DEFAULT_API_KEY, movies, similarity, title_list, call, idx,
                   S, recs, poster_cache, net_requests, last_fetch>>

(***************************************************************************)
(* Direct calls of the two functions                                       *)
(***************************************************************************)
\* recs = recommend_movie(selected_movie, top_n=n_recs) and the lines that
\* follow it, for any title and any top_n >= 1, without posters.
CallRecommend ==
    /\ pc = "ready"
    /\ \E movie_name \in QueryTitles, top_n \in 1..MaxTopN :
          \E r \in {recommend_movie(movie_name, top_n)} :
             Recommend(r, movie_name, top_n, FALSE, "", <<>>)

\* fetch_poster(tmdb_id, api_key), with what the network would answer.
CallFetchPoster ==
    /\ pc = "ready"
    /\ net_requests < MaxRequests
    /\ \E tmdb_id \in PosterIds, api_key \in ApiKeys, resp \in Responses :
          \E f \in {fetch_poster(tmdb_id, api_key, resp, poster_cache)} :
             /\ poster_cache' = f.cache
             /\ net_requests' = net_requests + f.fetch.requests
             /\ last_fetch' = f.fetch
    /\ UNCHANGED <<pc, DEFAULT_API_KEY, movies, similarity, title_list, call, idx,
                   S, recs, outcome>>

(***************************************************************************)
(* Specifications                                                          *)
(***************************************************************************)
Idle ==
    /\ call = NoCall
    /\ idx = NotFound
    /\ S = <<>>
    /\ recs = <<>>
    /\ outcome = "idle"
    /\ poster_cache = <<>>
    /\ net_requests = 0
    /\ last_fetch = NoFetch

\* The script as Streamlit runs it.
Init ==
    /\ pc = "start"
    /\ DEFAULT_API_KEY \in DefaultKeys
    /\ movies = [columns |-> {}, rows |-> <<>>]
    /\ similarity = [shape |-> <<0, 0>>, rows |-> <<>>]
    /\ title_list = <<>>
    /\ Idle

Next == load_data \/ CheckTitle \/ ClickRecommend \/ Rerun

Spec == Init /\ [][Next]_vars

\* recommend_movie over every catalog of titles and every aligned matrix, in
\* the state startup leaves when the files are well formed.
InitRecommend ==
    /\ pc = "ready"
    /\ DEFAULT_API_KEY = ""
    /\ \E n \in 0..MaxN :
          /\ movies \in Catalogs(n, {"title", "id"})
          /\ similarity \in SymMatrices(n)
    /\ title_list = [k \in 1..N |-> movies.rows[k].title]
    /\ Idle

NextRecommend == CallRecommend

SpecRecommend == InitRecommend /\ [][NextRecommend]_vars

\* fetch_poster over every argument pair and every network answer.
InitPoster ==
    /\ pc = "ready"
    /\ DEFAULT_API_KEY = ""
    /\ movies = [columns |-> {"title", "id"}, rows |-> <<>>]
    /\ similarity = [shape |-> <<0, 0>>, rows |-> <<>>]
    /\ title_list = <<>>
    /\ Idle

NextPoster == CallFetchPoster

SpecPoster == InitPoster /\ [][NextPoster]_vars

(***************************************************************************)
(* Properties                                                              *)
(***************************************************************************)
Called == call # NoCall
Matches == {p \in 0..(N - 1) : movies.rows[p + 1].title = call.movie_name}
Found == Matches # {}
Aligned == similarity.shape = <<N, N>>
ValidFetch == last_fetch.called /\ last_fetch.tmdb_id >= 0 /\ last_fetch.api_key # ""

\* C1, first half: the list recommend_movie returns is in descending score
\* order, and returned entries of equal score are in increasing catalog
\* position.
C1_Ordered ==
    (Called /\ Found) =>
        /\ Len(recs) = Len(S)
        /\ \A k \in 1..Len(S) : recs[k][2] = S[k][2]
        /\ \A a \in 1..Len(S), b \in 1..Len(S) :
              a < b => \/ recs[a][2] > recs[b][2]
                       \/ recs[a][2] = recs[b][2] /\ S[a][1] < S[b][1]

\* C1, second half: a call that repeats the arguments of the call before it
\* returns the same list.
C1_Deterministic ==
    (Called /\ call' = call) => (recs' = recs /\ S' = S /\ outcome' = outcome)

\* C1: for every catalog, every aligned similarity matrix, every title in the
\* catalog and every top_n >= 1, recommend_movie returns a list ordered by
\* score descending with ties in increasing catalog position, and two calls
\* with the same inputs return the same list.
C1_SortedStableDeterministic == []C1_Ordered /\ [][C1_Deterministic]_vars

C1_Witness ==
    /\ Called /\ Found
    /\ Len(S) = 2
    /\ S[1][2] = S[2][2]
    /\ S[1][1] < S[2][1]
    /\ S[1][1] # idx /\ S[2][1] # idx

\* The candidate that ranks first in the descending stable sort of a row: the
\* highest score, and among the highest scores the lowest position.
Rank0(row) ==
    CHOOSE p \in 0..(Len(row) - 1) :
        \A q \in 0..(Len(row) - 1) :
            row[p + 1] > row[q + 1] \/ (row[p + 1] = row[q + 1] /\ p <= q)

\* C2: for a title in the catalog and top_n >= 1, recommend_movie never
\* returns the rank-0 candidate of the query's similarity row, and returns at
\* most top_n and at most N-1 entries.
C2_DropsRank0AndBounded ==
    (Called /\ Found) =>
        /\ \A k \in 1..Len(S) : S[k][1] # Rank0(similarity.rows[idx + 1])
        /\ Len(recs) = Len(S)
        /\ Len(recs) <= call.top_n
        /\ Len(recs) <= N - 1

C2_Witness ==
    /\ Called /\ Found
    /\ Len(recs) = call.top_n
    /\ call.top_n < N - 1
    /\ Rank0(similarity.rows[idx + 1]) # idx

\* C3: the result of recommend_movie has no entry for the query movie itself:
\* no returned entry refers to the position the title resolved to.
C3_NeverReturnsQueryMovie ==
    (Called /\ idx # NotFound) => \A k \in 1..Len(S) : S[k][1] # idx

\* C4: for a title that equals no catalog title, recommend_movie returns the
\* empty list and raises nothing, and the page shows the "no recommendations"
\* warning instead of cards.
C4_UnknownTitleIsEmpty ==
    (Called /\ ~Found) =>
        /\ idx = NotFound
        /\ recs = <<>>
        /\ outcome = "warning"

C4_Witness ==
    /\ Called /\ ~Found
    /\ N >= 2
    /\ \E k \in 1..N : Lower(movies.rows[k].title) = Lower(call.movie_name)

\* C5: a similarity matrix that is not N x N for the N movies of the catalog
\* makes loading fail; the page is never served and no recommendation is ever
\* computed with such a matrix.
C5_ShapeMismatchIsFatal ==
    (pc = "ready" \/ Called) => Aligned

\* C6: when the catalog has no 'title' column, the script stops at the check:
\* no title list is built, recommend_movie is never called and no poster is
\* looked up.
C6_MissingTitleHalts ==
    ("title" \notin movies.columns /\ pc \in {"stopped", "ready"}) =>
        /\ pc = "stopped"
        /\ title_list = <<>>
        /\ ~Called
        /\ recs = <<>>
        /\ outcome = "idle"
        /\ ~last_fetch.called
        /\ poster_cache = <<>>
        /\ net_requests = 0

C6_Witness ==
    /\ pc = "stopped"
    /\ N >= 1
    /\ Aligned

\* C7: fetch_poster returns "" and performs no network request whenever the
\* id is the sentinel -1, whatever the key, and whenever the key is empty,
\* whatever the id.
C7_SentinelOrNoKeyNoRequest ==
    [][ (last_fetch'.tmdb_id = -1 \/ last_fetch'.api_key = "") =>
            /\ last_fetch'.ret = ""
            /\ last_fetch'.requests = 0
            /\ ~last_fetch'.raised
            /\ net_requests' = net_requests ]_vars

C7_Witness ==
    /\ last_fetch.called
    /\ last_fetch.tmdb_id = -1
    /\ last_fetch.api_key # ""
    /\ net_requests >= 1

\* What one answer of the network makes fetch_poster return.
Expected(resp) ==
    IF HasPath(resp) THEN ImageBase \o resp.body.value ELSE ""

\* C8 as stated: with a valid id and a non-empty key, every fetch_poster call
\* performs exactly one request, does not raise, and returns the URL the
\* answer of that request carries, or "" when it carries none.
C8_ExactlyOneRequestPerCall ==
    ValidFetch =>
        /\ last_fetch.requests = 1
        /\ ~last_fetch.raised
        /\ last_fetch.ret = Expected(last_fetch.resp)

\* C8, amended: with a valid id and a non-empty key, a fetch_poster call whose
\* arguments are not in the memoisation cache performs exactly one request
\* and returns the URL that answer carries (status 200 and a non-empty
\* poster_path), or "" for every other answer; a call whose arguments are
\* cached performs no request and returns the cached result.  No call raises,
\* and over a run there is one request per distinct valid argument pair.
C8_OneRequestPerCacheMiss ==
    /\ ValidFetch =>
          /\ ~last_fetch.raised
          /\ <<last_fetch.tmdb_id, last_fetch.api_key>> \in DOMAIN poster_cache
          /\ last_fetch.ret = poster_cache[<<last_fetch.tmdb_id, last_fetch.api_key>>]
          /\ IF last_fetch.hit
             THEN last_fetch.requests = 0
             ELSE /\ last_fetch.requests = 1
                  /\ last_fetch.ret = Expected(last_fetch.resp)
                  /\ last_fetch.ret # "" =>
                        /\ last_fetch.resp.status_code = 200
                        /\ last_fetch.ret = ImageBase \o "/p.jpg"
    /\ net_requests =
          Cardinality({k \in DOMAIN poster_cache : k[1] >= 0 /\ k[2] # ""})

C8_Witness ==
    /\ ValidFetch
    /\ last_fetch.hit
    /\ last_fetch.ret # ""
    /\ net_requests = 2

\* C9: recommend_movie looks the title up by exact, case-sensitive equality
\* and ranks the similarity row of the lowest catalog position that carries
\* it; a title that no catalog title equals exactly, even if one differs only
\* in case, is not found.
C9_FirstExactMatch ==
    Called =>
        IF Matches = {}
        THEN idx = NotFound /\ recs = <<>>
        ELSE /\ idx \in Matches
             /\ \A p \in Matches : idx <= p
             /\ S # <<>> \/ N = 1
             /\ \A k \in 1..Len(S) :
                   /\ S[k][2] = similarity.rows[idx + 1][S[k][1] + 1]
                   /\ recs[k][1] = movies.rows[S[k][1] + 1].title

C9_Witness ==
    /\ Called
    /\ Cardinality(Matches) >= 2
    /\ \E p \in Matches :
          /\ p # idx
          /\ similarity.rows[p + 1] # similarity.rows[idx + 1]
          /\ recommend_movie(call.movie_name, call.top_n).S #
                PySlice(SortedDesc(Enumerate(similarity.rows[p + 1])), 1,
                        call.top_n + 1)

\* C10: for a title in a catalog of N movies and k >= 1, recommend_movie(t, k)
\* has exactly min(k, N-1) entries and is a prefix of recommend_movie(t, k+1).
C10_PrefixAndLength ==
    (Called /\ Found) =>
        /\ Len(recs) = Min(call.top_n, N - 1)
        /\ \E more \in {recommend_movie(call.movie_name, call.top_n + 1).results} :
              /\ Len(recs) <= Len(more)
              /\ recs = SubSeq(more, 1, Len(recs))
              /\ Len(more) = Min(call.top_n + 1, N - 1)

C10_Witness ==
    /\ Called /\ Found
    /\ call.top_n < N - 1
    /\ Len(recs) >= 1
    /\ Len(recommend_movie(call.movie_name, call.top_n + 1).results) = Len(recs) + 1

====
